---- MODULE Spec2Model ----
(***************************************************************************)
(* Man-overboard (MOB) tracking plugin for a Signal K server.              *)
(*                                                                         *)
(* The repository holds three variants of the plugin:                      *)
(*   "heading"  : src/unnamed/part_000 (position + heading subscription,   *)
(*                track capacity 12 * 60)                                  *)
(*   "position" : src/index.js lines 222-703 (position subscription only,  *)
(*                track capacity 12 * 120)                                 *)
(*   "waypoint" : src/index.js lines 1-220 (waypoint resource creation)    *)
(*                                                                         *)
(* The module-level state of a plugin instance (mobNotification, onStop,   *)
(* track, plugin.unsubscribes) and the part of the host the plugin talks   *)
(* to (document store, subscriptions, clock) are the variables.  Each      *)
(* handler runs to completion and is one action.                           *)
(***************************************************************************)
EXTENDS Integers, Sequences, FiniteSets, TLC

VARIABLES
    variant,          \* which source variant this instance is
    unsubscribes,     \* plugin.unsubscribes: handles of the notification subscription
    onStop,           \* onStop: handles of the position subscription
    track,            \* track: sequence of [position, time]
    mobNotification,  \* mobNotification: Null or the stored notification value
    now,              \* Date.now(), in ms since the instance was constructed
    store,            \* host document store: the paths the plugin reads and writes
    subs,             \* host side: every subscription ever created, by handle
    started,          \* the host has called plugin.start and not yet plugin.stop
    thrown,           \* exception that propagated out of the last handler
    calls,            \* host calls made by the last handler, in order
    last,             \* the last operation handled and its input
    nextPoint,        \* waypoint variant: nextPoint, the saved course next point
    destination,      \* host side: the active course destination (course.nextPoint)
    resources,        \* host side: ids of the waypoint resources that exist
    pending,          \* promises of the waypoint variant that have not settled
    minted,           \* number of resource ids uuidv4() has produced
    nextPointFrom     \* number of emergencies accepted when nextPoint was assigned

waypointVars == <<nextPoint, destination, resources, pending, minted, nextPointFrom>>

vars == <<variant, unsubscribes, onStop, track, mobNotification, now, store,
          subs, started, thrown, calls, last, nextPoint, destination, resources,
          pending, minted, nextPointFrom>>

(***************************************************************************)
(* Bounds of the model.                                                    *)
(***************************************************************************)
MaxNow == 31000
MaxHandles == 3

\* Clock advances offered to the model, in ms.
TickSteps == {31000}

(***************************************************************************)
(* JavaScript values.                                                      *)
(***************************************************************************)
Undefined == [tag |-> "undefined"]
Null == [tag |-> "null"]
Str == [tag |-> "string"]
Num(n) == [tag |-> "number", n |-> n]
Point(lat, lon) == [tag |-> "point", latitude |-> lat, longitude |-> lon]

Truthy(v) ==
    /\ v.tag \notin {"undefined", "null"}
    /\ (v.tag = "number" => v.n # 0)

\* `k in o` throws a TypeError unless o is an object.
IsObject(v) == v.tag \in {"object", "point"}

\* o.k for an object o: undefined when the key is missing.
Prop(o, k) == IF k \in DOMAIN o THEN o[k] ELSE Undefined

\* Number(v) as the arithmetic of the code coerces it (null -> 0).
NumVal(v) == IF v.tag = "number" THEN v.n ELSE 0

(***************************************************************************)
(* Deltas: { updates: [ { values: [ { path, value } ] } ] }.  The handlers *)
(* test delta.updates and update.values before iterating.                  *)
(***************************************************************************)
PathValue(p, v) == [path |-> p, value |-> v]
Delta(vps) == [context |-> "vessels.self", updates |-> <<[values |-> vps]>>]
NoUpdatesDelta == [context |-> "vessels.self"]
NoValuesDelta == [context |-> "vessels.self", updates |-> <<[timestamp |-> 0]>>]

RECURSIVE Flatten(_)
Flatten(us) ==
    IF us = <<>> THEN <<>>
    ELSE (IF "values" \in DOMAIN Head(us) THEN Head(us).values ELSE <<>>)
         \o Flatten(Tail(us))

\* The path/value pairs the nested forEach loops of a handler visit, in order.
PathValues(delta) ==
    IF "updates" \in DOMAIN delta THEN Flatten(delta.updates) ELSE <<>>

(***************************************************************************)
(* Inputs.                                                                 *)
(***************************************************************************)
\* Positions on a local metric grid (metres north / east of a reference).
P0 == Point(0, 0)
P1 == Point(3, 4)
Positions == {P0, P1}

\* Headings in units of pi / 360 rad: north.
Headings == {0}

Emergency(p) ==
    [tag |-> "object", state |-> "emergency",
     data |-> [tag |-> "object", position |-> p]]
EmergencyNoPosition ==
    [tag |-> "object", state |-> "emergency", data |-> [tag |-> "object"]]
EmergencyNoData == [tag |-> "object", state |-> "emergency"]
Normal == [tag |-> "object", state |-> "normal"]
NoState == [tag |-> "object", message |-> "mob"]
OtherState == [tag |-> "object", state |-> "alert"]

NotificationOf(value) == Delta(<<PathValue("notifications.mob", value)>>)

NotificationValues ==
    {Emergency(p) : p \in Positions}
    \cup {EmergencyNoPosition, EmergencyNoData, Normal, NoState, OtherState,
          Null, Str}

NotificationDeltas ==
    {NotificationOf(v) : v \in NotificationValues}
    \cup {NoUpdatesDelta, NoValuesDelta}

PositionDeltas ==
    {Delta(<<PathValue("navigation.position", p)>>) : p \in Positions \cup {Null}}
    \cup {NoUpdatesDelta, NoValuesDelta}

SubscribeOutcomes == {"ok", "error"}

(***************************************************************************)
(* The host document store (app.handleMessage writes, app.getSelfPath      *)
(* reads).  Fields position .. bearingTrue are navigation.mob.*.           *)
(***************************************************************************)
MobPaths == {"position", "time", "elapsed", "distance", "bearingTrue"}

ClearedDelta ==
    [position |-> Null, time |-> Null, elapsed |-> Null, distance |-> Null,
     bearingTrue |-> Null]

\* The store after a delta (a partial map path -> value) has been applied.
ApplyDelta(st, delta) ==
    [p \in DOMAIN st |-> IF p \in DOMAIN delta THEN delta[p] ELSE st[p]]

(***************************************************************************)
(* Navigation math.  Angles are integers in units of pi / 360 rad, so that *)
(* the heading and bearing values used are exact; distances are whole      *)
(* metres on the local grid (geolib rounds to the accuracy it is given).   *)
(***************************************************************************)
PI == 2 * 180

radsToDeg(radians) == (radians * 180) \div PI

degsToRad(degrees) == (degrees * PI) \div 180

Abs(x) == IF x < 0 THEN -x ELSE x

\* Largest d with d * d <= n.
ISqrt(n) == CHOOSE d \in 0..n : d * d <= n /\ (d + 1) * (d + 1) > n

\* geolib.getDistance on the grid.
calc_distance(lat1, lon1, lat2, lon2) ==
    ISqrt((lat2 - lat1) * (lat2 - lat1) + (lon2 - lon1) * (lon2 - lon1))

\* geolib.computeDestinationPoint for a bearing that is a multiple of 90
\* degrees (the headings the model offers).
computeDestinationPoint(position, distance, bearing) ==
    CASE bearing % 360 = 0   -> Point(position.latitude + distance, position.longitude)
      [] bearing % 360 = 90  -> Point(position.latitude, position.longitude + distance)
      [] bearing % 360 = 180 -> Point(position.latitude - distance, position.longitude)
      [] OTHER               -> Point(position.latitude, position.longitude - distance)

calc_position_from(position, heading, distance) ==
    computeDestinationPoint(position, distance, radsToDeg(heading))

\* geolib.getRhumbLineBearing on the grid, in degrees, to the nearest of the
\* eight compass points (exact for the axis-aligned and diagonal cases).
getRhumbLineBearing(origin, dest) ==
    LET dLat == dest.latitude - origin.latitude
        dLon == dest.longitude - origin.longitude
        diag == 2 * Abs(dLat) >= Abs(dLon) /\ 2 * Abs(dLon) >= Abs(dLat)
    IN  CASE dLat = 0 /\ dLon = 0 -> 0
          [] diag /\ dLat > 0 /\ dLon > 0 -> 45
          [] diag /\ dLat < 0 /\ dLon > 0 -> 135
          [] diag /\ dLat < 0 /\ dLon < 0 -> 225
          [] diag /\ dLat > 0 /\ dLon < 0 -> 315
          [] Abs(dLat) >= Abs(dLon) /\ dLat > 0 -> 0
          [] Abs(dLat) >= Abs(dLon) /\ dLat < 0 -> 180
          [] dLon > 0 -> 90
          [] OTHER -> 270

\* computeBowLocation: gps_dist is sensors.gps.fromBow.value.
computeBowLocation(position, heading, gps_dist) ==
    IF heading.tag # "undefined" /\ gps_dist.tag # "undefined"
    THEN calc_position_from(position, NumVal(heading), NumVal(gps_dist))
    ELSE position

\* getMOBDelta whose else branch nulls only the three derived fields.
getMOBDelta_DerivedOnly(st, position, t) ==
    LET mobPosition == st.position
    IN  IF Truthy(position) /\ Truthy(mobPosition)
        THEN LET mobTime == st.time
                 bowPosition == computeBowLocation(position, st.headingTrue, st.fromBow)
                 bearing == degsToRad(getRhumbLineBearing(bowPosition, mobPosition))
                 distance == calc_distance(bowPosition.latitude, bowPosition.longitude,
                                           mobPosition.latitude, mobPosition.longitude)
             IN  [elapsed |-> Num((t - NumVal(mobTime)) \div 1000),
                  distance |-> Num(distance),
                  bearingTrue |-> Num(bearing)]
        ELSE [elapsed |-> Null, distance |-> Null, bearingTrue |-> Null]

\* getMOBDelta that publishes the elapsed time without the division by 1000.
getMOBDelta_ElapsedMillis(st, position, t) ==
    LET mobPosition == st.position
    IN  IF Truthy(position) /\ Truthy(mobPosition)
        THEN LET mobTime == st.time
                 bowPosition == computeBowLocation(position, st.headingTrue, st.fromBow)
                 bearing == degsToRad(getRhumbLineBearing(bowPosition, mobPosition))
                 distance == calc_distance(bowPosition.latitude, bowPosition.longitude,
                                           mobPosition.latitude, mobPosition.longitude)
             IN  [elapsed |-> Num(t - NumVal(mobTime)),
                  distance |-> Num(distance),
                  bearingTrue |-> Num(bearing)]
        ELSE ClearedDelta

\* getMOBDelta(app, position), evaluated at clock value t against store st.
\* Every clock value of the model is a whole number of seconds, so the
\* division by 1000 is exact.
getMOBDelta(st, position, t) ==
    LET mobPosition == st.position
    IN  IF Truthy(position) /\ Truthy(mobPosition)
        THEN LET mobTime == st.time
                 bowPosition == computeBowLocation(position, st.headingTrue, st.fromBow)
                 bearing == degsToRad(getRhumbLineBearing(bowPosition, mobPosition))
                 distance == calc_distance(bowPosition.latitude, bowPosition.longitude,
                                           mobPosition.latitude, mobPosition.longitude)
             IN  [elapsed |-> Num((t - NumVal(mobTime)) \div 1000),
                  distance |-> Num(distance),
                  bearingTrue |-> Num(bearing)]
        ELSE ClearedDelta

(***************************************************************************)
(* The plugin's state while a handler runs: a record of the module-level   *)
(* variables, the store and the host's subscriptions.  A handler is an     *)
(* operator from this record to the record it leaves; once an exception    *)
(* has been thrown the rest of the handler is skipped.                     *)
(***************************************************************************)
Engine ==
    [unsubscribes |-> unsubscribes, onStop |-> onStop, track |-> track,
     mobNotification |-> mobNotification, store |-> store, subs |-> subs,
     thrown |-> "none", calls |-> <<>>]

\* app.handleMessage(plugin.id, delta): the host applies the delta to the store.
handleMessage(e, delta) ==
    [e EXCEPT !.store = ApplyDelta(e.store, delta),
              !.calls = Append(e.calls, "handleMessage")]

\* The error callback without app.setProviderError(err).
errorCallback_NoProviderError(e) == [e EXCEPT !.calls = Append(e.calls, "error")]

\* (err) => { app.error(err); app.setProviderError(err) }
errorCallback(e) == [e EXCEPT !.calls = e.calls \o <<"error", "setProviderError">>]

\* app.subscriptionmanager.subscribe(spec, list, errorCallback, handler): on
\* success the host pushes the cancel function of the new subscription on
\* `list`; on failure it calls the error callback, which reports the error.
subscribe(e, list, kind, outcome) ==
    IF outcome = "ok"
    THEN [e EXCEPT !.subs = Append(e.subs, [kind |-> kind, open |-> TRUE, cancels |-> 0]),
                   ![list] = Append(e[list], Len(e.subs) + 1),
                   !.calls = Append(e.calls, "subscribe")]
    ELSE errorCallback([e EXCEPT !.calls = Append(e.calls, "subscribe")])

\* list.forEach((f) => f()): every cancel function of `handles` is called.
cancelAll(e, handles) ==
    [e EXCEPT !.subs = [h \in DOMAIN e.subs |->
                           IF \E i \in DOMAIN handles : handles[i] = h
                           THEN [open |-> FALSE, kind |-> e.subs[h].kind,
                                 cancels |-> e.subs[h].cancels + 1]
                           ELSE e.subs[h]],
              !.calls = e.calls \o [i \in DOMAIN handles |-> "unsubscribe"]]

(***************************************************************************)
(* Track history.                                                          *)
(***************************************************************************)
SampleInterval == 30 * 1000

TrackCapacity(v) == IF v = "heading" THEN 12 * 60 ELSE 12 * 120

\* recordSample without the 30 s test: every offered position is pushed.
recordSample_NoThrottle(trk, position, t, capacity) ==
    LET pushed == Append(trk, [position |-> position, time |-> t])
    IN  IF Len(pushed) > capacity THEN Tail(pushed) ELSE pushed

\* recordSample without track.shift().
recordSample_NoShift(trk, position, t, capacity) ==
    IF Len(trk) = 0 \/ trk[Len(trk)].time < t - SampleInterval
    THEN Append(trk, [position |-> position, time |-> t])
    ELSE trk

\* recordSample with track.pop() in place of track.shift().
recordSample_Pop(trk, position, t, capacity) ==
    IF Len(trk) = 0 \/ trk[Len(trk)].time < t - SampleInterval
    THEN LET pushed == Append(trk, [position |-> position, time |-> t])
         IN  IF Len(pushed) > capacity THEN SubSeq(pushed, 1, Len(pushed) - 1) ELSE pushed
    ELSE trk

\* The track after the position handler has offered `position` at clock t.
recordSample(trk, position, t, capacity) ==
    IF Len(trk) = 0 \/ trk[Len(trk)].time < t - SampleInterval
    THEN LET pushed == Append(trk, [position |-> position, time |-> t])
         IN  IF Len(pushed) > capacity THEN Tail(pushed) ELSE pushed
    ELSE trk

(***************************************************************************)
(* stopWatchingPosition / startWatchingPosition.                           *)
(***************************************************************************)
\* stopWatchingPosition without track = [].
stopWatchingPosition_KeepsTrack(e) ==
    handleMessage([cancelAll(e, e.onStop) EXCEPT !.onStop = <<>>], ClearedDelta)

\* stopWatchingPosition without the final app.handleMessage.
stopWatchingPosition_NoClearedDelta(e) ==
    [cancelAll(e, e.onStop) EXCEPT !.onStop = <<>>, !.track = <<>>]

stopWatchingPosition(e) ==
    LET cancelled == cancelAll(e, e.onStop)
        cleared == [cancelled EXCEPT !.onStop = <<>>, !.track = <<>>]
    IN  handleMessage(cleared, ClearedDelta)

\* startWatchingPosition that subscribes before it publishes the initial state.
startWatchingPosition_SubscribeFirst(e, t, outcome) ==
    IF Len(e.onStop) > 0 THEN e
    ELSE LET data == Prop(e.mobNotification, "data")
         IN  IF ~IsObject(data)
             THEN [e EXCEPT !.thrown = "TypeError"]
             ELSE LET subscribed == subscribe([e EXCEPT !.track = <<>>], "onStop",
                                              "position", outcome)
                  IN  handleMessage(subscribed, [position |-> Prop(data, "position"),
                                                 time |-> Num(t)])

startWatchingPosition(e, t, outcome) ==
    IF Len(e.onStop) > 0 THEN e
    ELSE LET data == Prop(e.mobNotification, "data")
         IN  IF ~IsObject(data)
             THEN \* mobNotification.data.position with data undefined
                  [e EXCEPT !.thrown = "TypeError"]
             ELSE LET published == handleMessage(e, [position |-> Prop(data, "position"),
                                                     time |-> Num(t)])
                      emptied == [published EXCEPT !.track = <<>>]
                  IN  subscribe(emptied, "onStop", "position", outcome)

(***************************************************************************)
(* The notification handler.                                               *)
(***************************************************************************)
\* isEmergency without the test that no notification is stored.
isEmergency_NoActiveTest(mob, value) ==
    IF ~IsObject(value) THEN "throw"
    ELSE IF "state" \in DOMAIN value /\ value.state = "emergency" THEN "true"
    ELSE "false"

\* !mobNotification && "state" in vp.value && vp.value.state === "emergency"
\* "true", "false", or "throw" when `in` is applied to a non-object.
isEmergency(mob, value) ==
    IF Truthy(mob) THEN "false"
    ELSE IF ~IsObject(value) THEN "throw"
    ELSE IF "state" \in DOMAIN value /\ value.state = "emergency" THEN "true"
    ELSE "false"

\* isNormal as a plain else branch: any object that is not an emergency.
isNormal_NoStateTest(v, mob, value) ==
    IF v # "heading" /\ ~Truthy(mob) THEN "false"
    ELSE IF ~IsObject(value) THEN "throw"
    ELSE "true"

\* heading variant:  "state" in vp.value && vp.value.state === "normal"
\* position variant: mobNotification && "state" in vp.value && ... === "normal"
isNormal(v, mob, value) ==
    IF v # "heading" /\ ~Truthy(mob) THEN "false"
    ELSE IF ~IsObject(value) THEN "throw"
    ELSE IF "state" \in DOMAIN value /\ value.state = "normal" THEN "true"
    ELSE "false"

onNotificationValue(v, e, vp, t, outcome) ==
    IF vp.path # "notifications.mob" THEN e
    ELSE LET emergency == isEmergency(e.mobNotification, vp.value)
         IN  IF emergency = "throw" THEN [e EXCEPT !.thrown = "TypeError"]
             ELSE IF emergency = "true"
             THEN startWatchingPosition([e EXCEPT !.mobNotification = vp.value], t, outcome)
             ELSE LET normal == isNormal(v, e.mobNotification, vp.value)
                  IN  IF normal = "throw" THEN [e EXCEPT !.thrown = "TypeError"]
                      ELSE IF normal = "true"
                      THEN [stopWatchingPosition(e) EXCEPT !.mobNotification = Null]
                      ELSE e

RECURSIVE onNotificationValues(_, _, _, _, _)
onNotificationValues(v, e, vps, t, outcome) ==
    IF vps = <<>> \/ e.thrown # "none" THEN e
    ELSE onNotificationValues(v, onNotificationValue(v, e, Head(vps), t, outcome),
                              Tail(vps), t, outcome)

onNotificationDelta(v, e, delta, t, outcome) ==
    onNotificationValues(v, e, PathValues(delta), t, outcome)

(***************************************************************************)
(* The position handler.                                                   *)
(***************************************************************************)
\* heading variant: the loops record the track and keep the last position;
\* the delta is computed and published once, after the loops.
RECURSIVE watchLoopHeading(_, _, _, _)
watchLoopHeading(e, vps, vesselPosition, t) ==
    IF vps = <<>> THEN [engine |-> e, vesselPosition |-> vesselPosition]
    ELSE IF Head(vps).path = "navigation.position"
    THEN watchLoopHeading(
             [e EXCEPT !.track = recordSample(e.track, Head(vps).value, t,
                                              TrackCapacity("heading"))],
             Tail(vps), Head(vps).value, t)
    ELSE watchLoopHeading(e, Tail(vps), vesselPosition, t)

\* The handler that leaves the track alone when the computed delta is all-null.
onPositionDeltaHeading_NoOfferOnNull(e, delta, t) ==
    LET r == watchLoopHeading(e, PathValues(delta), Undefined, t)
        mobDelta == getMOBDelta(r.engine.store, r.vesselPosition, t)
    IN  IF Truthy(r.engine.mobNotification)
        THEN handleMessage(IF mobDelta = ClearedDelta
                           THEN [r.engine EXCEPT !.track = e.track]
                           ELSE r.engine,
                           mobDelta)
        ELSE r.engine

onPositionDeltaHeading(e, delta, t) ==
    LET r == watchLoopHeading(e, PathValues(delta), Undefined, t)
    IN  IF Truthy(r.engine.mobNotification)
        THEN handleMessage(r.engine, getMOBDelta(r.engine.store, r.vesselPosition, t))
        ELSE r.engine

\* position variant: each navigation.position value is published, then tracked.
RECURSIVE watchLoopPosition(_, _, _)
watchLoopPosition(e, vps, t) ==
    IF vps = <<>> THEN e
    ELSE IF Head(vps).path = "navigation.position"
    THEN LET published == handleMessage(e, getMOBDelta(e.store, Head(vps).value, t))
         IN  watchLoopPosition(
                 [published EXCEPT !.track = recordSample(published.track, Head(vps).value,
                                                          t, TrackCapacity("position"))],
                 Tail(vps), t)
    ELSE watchLoopPosition(e, Tail(vps), t)

onPositionDeltaPosition(e, delta, t) == watchLoopPosition(e, PathValues(delta), t)

onPositionDelta(v, e, delta, t) ==
    IF v = "heading" THEN onPositionDeltaHeading(e, delta, t)
    ELSE onPositionDeltaPosition(e, delta, t)

(***************************************************************************)
(* Initial state: the module has been loaded (module.exports(app) has      *)
(* returned); the host has not called plugin.start yet.  No navigation.mob *)
(* path exists in the store, so app.getSelfPath returns undefined.         *)
(***************************************************************************)
Variants == {"heading", "position"}

BowOffsets == {Undefined, Num(5)}

Init ==
    /\ variant \in Variants
    /\ unsubscribes = <<>>
    /\ onStop = <<>>
    /\ track = <<>>
    /\ mobNotification = Null
    /\ now = 0
    /\ \E b \in BowOffsets :
         store = [position |-> Undefined, time |-> Undefined, elapsed |-> Undefined,
                  distance |-> Undefined, bearingTrue |-> Undefined,
                  headingTrue |-> Undefined, fromBow |-> b]
    /\ subs = <<>>
    /\ started = FALSE
    /\ thrown = "none"
    /\ calls = <<>>
    /\ last = [op |-> "init"]
    /\ nextPoint = Null
    /\ destination = Null
    /\ resources = {}
    /\ pending = {}
    /\ minted = 0
    /\ nextPointFrom = 0

\* The state a handler leaves, written back to the variables.
Commit(e) ==
    /\ unsubscribes' = e.unsubscribes
    /\ onStop' = e.onStop
    /\ track' = e.track
    /\ mobNotification' = e.mobNotification
    /\ store' = e.store
    /\ subs' = e.subs
    /\ thrown' = e.thrown
    /\ calls' = e.calls
    /\ UNCHANGED waypointVars

\* Whether the mob notification feed / the position feed delivers deltas.
NotificationFeedOpen == \E i \in DOMAIN unsubscribes : subs[unsubscribes[i]].open
PositionFeedOpen == \E i \in DOMAIN onStop : subs[onStop[i]].open

(***************************************************************************)
(* Actions.                                                                *)
(***************************************************************************)
\* plugin.start(options)
PluginStart(outcome) ==
    /\ ~started
    /\ Len(subs) < MaxHandles
    /\ Commit(subscribe(Engine, "unsubscribes", "notifications", outcome))
    /\ started' = TRUE
    /\ last' = [op |-> "plugin.start"]
    /\ UNCHANGED <<variant, now>>

\* plugin.stop()
PluginStop ==
    /\ started
    /\ Commit([cancelAll(Engine, unsubscribes) EXCEPT !.unsubscribes = <<>>])
    /\ started' = FALSE
    /\ last' = [op |-> "plugin.stop", tracking |-> Truthy(mobNotification)]
    /\ UNCHANGED <<variant, now>>

\* The host delivers a delta of the notifications.mob subscription.
NotificationDelta(delta, outcome) ==
    /\ NotificationFeedOpen
    /\ LET e == onNotificationDelta(variant, Engine, delta, now, outcome)
       IN  /\ Len(e.subs) <= MaxHandles
           /\ Commit(e)
    /\ last' = [op |-> "notification", delta |-> delta,
                tracking |-> Truthy(mobNotification)]
    /\ UNCHANGED <<variant, now, started>>

\* The host delivers a navigation.position delta of the position subscription.
PositionDelta(delta) ==
    /\ PositionFeedOpen
    /\ Commit(onPositionDelta(variant, Engine, delta, now))
    /\ last' = [op |-> "position", delta |-> delta,
                tracking |-> Truthy(mobNotification)]
    /\ UNCHANGED <<variant, now, started>>

\* navigation.headingTrue changes: the host updates the store and delivers the
\* delta to the position subscription of the heading variant, which subscribes
\* to that path too.
HeadingValue(value) ==
    /\ LET delta == Delta(<<PathValue("navigation.headingTrue", value)>>)
           e == [Engine EXCEPT !.store = ApplyDelta(store, [headingTrue |-> value])]
       IN  /\ Commit(IF variant = "heading" /\ PositionFeedOpen
                     THEN onPositionDelta(variant, e, delta, now)
                     ELSE e)
           /\ last' = [op |-> "heading", delta |-> delta,
                       tracking |-> Truthy(mobNotification)]
    /\ UNCHANGED <<variant, now, started>>

HeadingDelta(h) == HeadingValue(Num(h))

\* Time passes: the clock advances by d, up to `limit`.
Advance(d, limit) ==
    /\ now + d <= limit
    /\ now' = now + d
    /\ thrown' = "none"
    /\ calls' = <<>>
    /\ last' = [op |-> "tick"]
    /\ UNCHANGED <<variant, unsubscribes, onStop, track, mobNotification, store,
                   subs, started>>
    /\ UNCHANGED waypointVars

Tick(d) == Advance(d, MaxNow)

Next ==
    \/ \E outcome \in SubscribeOutcomes : PluginStart(outcome)
    \/ PluginStop
    \/ \E delta \in NotificationDeltas, outcome \in SubscribeOutcomes :
         NotificationDelta(delta, outcome)
    \/ \E delta \in PositionDeltas : PositionDelta(delta)
    \/ \E h \in Headings : HeadingDelta(h)
    \/ \E d \in TickSteps : Tick(d)

Spec == Init /\ [][Next]_vars

(***************************************************************************)
(* Stray deliveries: a host whose unsubscribe does not stop deliveries at  *)
(* once hands a late navigation.position delta to the handler of a         *)
(* position subscription that stopWatchingPosition has already cancelled.  *)
(***************************************************************************)
StrayPositionDelta(delta) ==
    /\ onStop = <<>>
    /\ ~Truthy(mobNotification)
    /\ \E h \in DOMAIN subs : subs[h].kind = "position" /\ ~subs[h].open
    /\ Commit(onPositionDelta(variant, Engine, delta, now))
    /\ last' = [op |-> "stray", delta |-> delta, tracking |-> Truthy(mobNotification)]
    /\ UNCHANGED <<variant, now, started>>

NextStray ==
    \/ Next
    \/ \E delta \in PositionDeltas : StrayPositionDelta(delta)

SpecStray == Init /\ [][NextStray]_vars

(***************************************************************************)
(* A long tracking episode: one emergency, then the position feed delivers *)
(* one position every CapStep ms (alternating between the two positions)   *)
(* until MaxOverflow samples more than the capacity have been recorded.    *)
(***************************************************************************)
MaxOverflow == 2

CapStep == SampleInterval + 1000

\* The i-th position the feed delivers (i = 0, 1, ...) and the sample it makes.
CapPosition(i) == IF i % 2 = 0 THEN P0 ELSE P1
CapSample(i) == [position |-> CapPosition(i), time |-> i * CapStep]

InitCap == Init /\ store.fromBow = Undefined

StartCap == now = 0 /\ PluginStart("ok")

EmergencyCap == now = 0 /\ NotificationDelta(NotificationOf(Emergency(P0)), "ok")

PositionCap ==
    PositionDelta(Delta(<<PathValue("navigation.position", CapPosition(now \div CapStep))>>))

\* The clock advances once the position of the current instant was delivered.
TickCap ==
    /\ last.op = "position"
    /\ Advance(CapStep, (TrackCapacity(variant) + MaxOverflow - 1) * CapStep)

NextCap ==
    \/ StartCap
    \/ EmergencyCap
    \/ PositionCap
    \/ TickCap

SpecCap == InitCap /\ [][NextCap]_vars

(***************************************************************************)
(* Sample timing: episodes of a well-formed emergency during which the     *)
(* position feed delivers a position at clock values 4, 5 or 26 s apart    *)
(* (so gaps of 5, 30, 31, 35 s between offers occur).                      *)
(***************************************************************************)
ThrottleMaxSeconds == 40

ThrottleSteps == {4000, 5000, 26000}

ThrottlePositionDeltas == {Delta(<<PathValue("navigation.position", P0)>>)}

InitThrottle == Init /\ store.fromBow = Undefined

StartThrottle == PluginStart("ok")

NotificationThrottle ==
    \E value \in {Emergency(P0), Normal} : NotificationDelta(NotificationOf(value), "ok")

PositionThrottle == \E delta \in ThrottlePositionDeltas : PositionDelta(delta)

TickThrottle == \E d \in ThrottleSteps : Advance(d, ThrottleMaxSeconds * 1000)

NextThrottle ==
    \/ StartThrottle
    \/ NotificationThrottle
    \/ PositionThrottle
    \/ TickThrottle

SpecThrottle == InitThrottle /\ [][NextThrottle]_vars

(***************************************************************************)
(* Bow offset: the heading in the store is north, south, or null (the host *)
(* stores null for a path whose value is not available); one emergency     *)
(* at P0 and vessel positions P0 and P1.  No time passes.                  *)
(***************************************************************************)
BowHeadings == {Num(0), Num(PI), Null}

StartBow == PluginStart("ok")

NotificationBow ==
    \E value \in {Emergency(P0), Normal} : NotificationDelta(NotificationOf(value), "ok")

PositionBow ==
    \E p \in Positions : PositionDelta(Delta(<<PathValue("navigation.position", p)>>))

HeadingBow == \E value \in BowHeadings : HeadingValue(value)

NextBow ==
    \/ StartBow
    \/ NotificationBow
    \/ PositionBow
    \/ HeadingBow

SpecBow == Init /\ [][NextBow]_vars

(***************************************************************************)
(* The waypoint variant (src/index.js, first module): an emergency creates *)
(* a waypoint resource for the MOB position and, in the callbacks of the   *)
(* promises, saves the course's next point and redirects the vessel to the *)
(* new waypoint; "normal" restores the saved next point.  The promises     *)
(* settle in later steps, in any order with the notification deltas.       *)
(***************************************************************************)
MaxEpisodes == 2

\* A point of the route the vessel was sailing, and the waypoint resource
\* created for resource id `id` (ids are 1, 2, ...: uuidv4 never repeats).
RoutePoint == [tag |-> "object", href |-> 0]
MobWaypoint(id) == [tag |-> "object", href |-> id]

WaypointEngine ==
    [mobNotification |-> mobNotification, nextPoint |-> nextPoint,
     destination |-> destination, resources |-> resources, pending |-> pending,
     minted |-> minted, nextPointFrom |-> nextPointFrom,
     thrown |-> "none", calls |-> <<>>]

\* app.setDestination(dest) / app.clearDestination()
setDestination(w, dest) ==
    [w EXCEPT !.destination = dest, !.calls = Append(w.calls, "setDestination")]

clearDestination(w) ==
    [w EXCEPT !.destination = Null, !.calls = Append(w.calls, "clearDestination")]

\* The emergency branch: the notification is saved, an id is drawn, the body
\* reads vp.value.data.position.longitude, and setResource is called; its
\* promise is pending when the handler returns.
onEmergencyWaypoint(w, value) ==
    LET data == Prop(value, "data")
        saved == [w EXCEPT !.mobNotification = value, !.minted = w.minted + 1]
    IN  IF ~IsObject(data) \/ ~IsObject(Prop(data, "position"))
        THEN [saved EXCEPT !.thrown = "TypeError"]
        ELSE [saved EXCEPT !.pending = saved.pending
                                         \cup {[call |-> "setResource", id |-> saved.minted]},
                           !.calls = Append(saved.calls, "setResource")]

\* The normal branch.
onNormalWaypoint(w) ==
    LET restored == IF Truthy(w.nextPoint)
                    THEN setDestination(w, w.nextPoint)
                    ELSE clearDestination(w)
    IN  [restored EXCEPT !.mobNotification = Null]

onWaypointValue(w, vp) ==
    IF vp.path # "notifications.mob" THEN w
    ELSE LET emergency == isEmergency(w.mobNotification, vp.value)
         IN  IF emergency = "throw" THEN [w EXCEPT !.thrown = "TypeError"]
             ELSE IF emergency = "true" THEN onEmergencyWaypoint(w, vp.value)
             ELSE LET normal == isNormal("waypoint", w.mobNotification, vp.value)
                  IN  IF normal = "throw" THEN [w EXCEPT !.thrown = "TypeError"]
                      ELSE IF normal = "true" THEN onNormalWaypoint(w)
                      ELSE w

RECURSIVE onWaypointValues(_, _)
onWaypointValues(w, vps) ==
    IF vps = <<>> \/ w.thrown # "none" THEN w
    ELSE onWaypointValues(onWaypointValue(w, Head(vps)), Tail(vps))

onWaypointDelta(w, delta) == onWaypointValues(w, PathValues(delta))

\* setResource's promise that runs its then-callback whatever the outcome.
setResourceSettled_IgnoresFailure(w, id, outcome) ==
    [w EXCEPT !.resources = IF outcome = "ok" THEN w.resources \cup {id} ELSE w.resources,
              !.pending = (w.pending \ {[call |-> "setResource", id |-> id]})
                              \cup {[call |-> "getCourse", id |-> id]},
              !.calls = Append(w.calls, "getCourse")]

\* The promise of setResource(…, id, …) settles: fulfilled, the resource
\* exists and the callback calls app.getCourse(); rejected, nothing runs.
setResourceSettled(w, id, outcome) ==
    IF outcome = "ok"
    THEN [w EXCEPT !.resources = w.resources \cup {id},
                   !.pending = (w.pending \ {[call |-> "setResource", id |-> id]})
                                   \cup {[call |-> "getCourse", id |-> id]},
                   !.calls = Append(w.calls, "getCourse")]
    ELSE [w EXCEPT !.pending = w.pending \ {[call |-> "setResource", id |-> id]}]

\* The promise of getCourse() settles: fulfilled, the callback saves
\* course.nextPoint (the active destination) and redirects to the waypoint.
getCourseSettled(w, id, outcome) ==
    LET rest == [w EXCEPT !.pending = w.pending \ {[call |-> "getCourse", id |-> id]}]
    IN  IF outcome = "ok"
        THEN setDestination([rest EXCEPT !.nextPoint = w.destination,
                                         !.nextPointFrom = w.minted],
                            MobWaypoint(id))
        ELSE rest

WaypointValues == {Emergency(P0), EmergencyNoPosition, Normal, OtherState, Null}

PromiseOutcomes == {"ok", "error"}

UserDestinations == {Null, RoutePoint}

InitWaypoint ==
    /\ variant = "waypoint"
    /\ unsubscribes = <<>>
    /\ onStop = <<>>
    /\ track = <<>>
    /\ mobNotification = Null
    /\ now = 0
    /\ store = [position |-> Undefined, time |-> Undefined, elapsed |-> Undefined,
                distance |-> Undefined, bearingTrue |-> Undefined,
                headingTrue |-> Undefined, fromBow |-> Undefined]
    /\ subs = <<>>
    /\ started = FALSE
    /\ thrown = "none"
    /\ calls = <<>>
    /\ last = [op |-> "init"]
    /\ nextPoint = Null
    /\ destination \in UserDestinations
    /\ resources = {}
    /\ pending = {}
    /\ minted = 0
    /\ nextPointFrom = 0

CommitWaypoint(w) ==
    /\ mobNotification' = w.mobNotification
    /\ nextPoint' = w.nextPoint
    /\ destination' = w.destination
    /\ resources' = w.resources
    /\ pending' = w.pending
    /\ minted' = w.minted
    /\ nextPointFrom' = w.nextPointFrom
    /\ thrown' = w.thrown
    /\ calls' = w.calls
    /\ UNCHANGED <<variant, unsubscribes, onStop, track, now, store, subs, started>>

StartWaypoint == PluginStart("ok")

\* The host delivers a delta of the notifications.mob subscription.
WaypointNotification(delta) ==
    /\ NotificationFeedOpen
    /\ LET w == onWaypointDelta(WaypointEngine, delta)
       IN  /\ w.minted <= MaxEpisodes
           /\ CommitWaypoint(w)
    /\ last' = [op |-> "notification", delta |-> delta,
                tracking |-> Truthy(mobNotification)]

SetResourceSettled(id, outcome) ==
    /\ [call |-> "setResource", id |-> id] \in pending
    /\ CommitWaypoint(setResourceSettled(WaypointEngine, id, outcome))
    /\ last' = [op |-> "setResource", id |-> id, outcome |-> outcome,
                tracking |-> Truthy(mobNotification)]

GetCourseSettled(id, outcome) ==
    /\ [call |-> "getCourse", id |-> id] \in pending
    /\ CommitWaypoint(getCourseSettled(WaypointEngine, id, outcome))
    /\ last' = [op |-> "getCourse", id |-> id, outcome |-> outcome,
                tracking |-> Truthy(mobNotification)]

\* The crew changes or clears the destination through the host's course API.
UserDestination(dest) ==
    /\ destination # dest
    /\ destination' = dest
    /\ thrown' = "none"
    /\ calls' = <<>>
    /\ last' = [op |-> "user", tracking |-> Truthy(mobNotification)]
    /\ UNCHANGED <<variant, unsubscribes, onStop, track, mobNotification, now, store,
                   subs, started, nextPoint, resources, pending, minted,
                   nextPointFrom>>

NextWaypoint ==
    \/ StartWaypoint
    \/ \E value \in WaypointValues : WaypointNotification(NotificationOf(value))
    \/ \E id \in 1..MaxEpisodes, outcome \in PromiseOutcomes :
         SetResourceSettled(id, outcome)
    \/ \E id \in 1..MaxEpisodes, outcome \in PromiseOutcomes :
         GetCourseSettled(id, outcome)
    \/ \E dest \in UserDestinations : UserDestination(dest)

SpecWaypoint == InitWaypoint /\ [][NextWaypoint]_vars

(***************************************************************************)
(* Properties.                                                             *)
(***************************************************************************)
Tracking == Truthy(mobNotification)

EmergencyValues ==
    {Emergency(p) : p \in Positions} \cup {EmergencyNoPosition, EmergencyNoData}

MalformedEmergencyValues == {EmergencyNoPosition, EmergencyNoData}

AllMobPathsNull == \A p \in MobPaths : store[p] = Null

\* The step handled a notification delta carrying `value`.
HandledNotification(value) ==
    last'.op = "notification" /\ last'.delta = NotificationOf(value)

\* The step left the plugin's own state and the host untouched and made no call.
NoEffect ==
    /\ UNCHANGED <<mobNotification, onStop, unsubscribes, track, store, subs>>
    /\ calls' = <<>>
    /\ thrown' = "none"

\* C1: a single mobNotification holds the one MobEvent, and an "emergency"
\* notification handled while a notification is already stored changes
\* neither the stored notification, the position subscription handles, the
\* track nor the store, and makes no host call (no publish, no subscribe).
C1_DuplicateEmergencyIsNoOp ==
    [][\A value \in EmergencyValues :
         (Tracking /\ HandledNotification(value)) => NoEffect]_vars

C1_Witness ==
    /\ last.op = "notification"
    /\ last.tracking
    /\ last.delta = NotificationOf(Emergency(P1))
    /\ mobNotification = Emergency(P0)
    /\ onStop # <<>>
    /\ track # <<>>

\* The position embedded in the stored (activating) notification.
ActivationPosition == Prop(Prop(mobNotification, "data"), "position")

\* Deltas as the host builds them from a valid position or heading.
WellFormedVesselDeltas ==
    {Delta(<<PathValue("navigation.position", p)>>) : p \in Positions}
    \cup {Delta(<<PathValue("navigation.headingTrue", Num(h))>>) : h \in Headings}

\* C2: while an emergency is being tracked and navigation.mob.position holds
\* the position embedded in the activating notification, handling a position
\* or heading delta (here: well-formed ones only, heading-only included)
\* leaves navigation.mob.position equal to it.
C2_MobPositionImmutable ==
    [][(/\ Tracking
        /\ ActivationPosition.tag = "point"
        /\ store.position = ActivationPosition
        /\ last'.op \in {"position", "heading"}
        /\ last'.delta \in WellFormedVesselDeltas)
          => store'.position = ActivationPosition]_vars

\* C3: a position delta delivered to the handler of a cancelled position
\* subscription publishes nothing and leaves the track empty.
C3_StrayDeltaIsNoOp ==
    last.op = "stray" => (calls = <<>> /\ track = <<>>)

\* C4: a "normal" notification handled while tracking cancels the position
\* subscription, discards the notification and leaves all five
\* navigation.mob paths null; while idle they stay null.
C4_NormalClears ==
    [][/\ (Tracking /\ HandledNotification(Normal))
            => /\ mobNotification' = Null
               /\ onStop' = <<>>
               /\ \A i \in DOMAIN onStop : ~subs'[onStop[i]].open
               /\ AllMobPathsNull'
       /\ (~Tracking /\ AllMobPathsNull /\ ~Tracking') => AllMobPathsNull']_vars

C4_Witness ==
    /\ last.op = "notification"
    /\ last.tracking
    /\ last.delta = NotificationOf(Normal)
    /\ mobNotification = Null
    /\ AllMobPathsNull
    /\ \E h \in DOMAIN subs : subs[h].kind = "position" /\ subs[h].cancels = 1

\* C5: an "emergency" value without data.position handled while idle is
\* ignored: nothing is stored, no subscription is opened, nothing is called.
C5_MalformedEmergencyIgnored ==
    (/\ last.op = "notification"
     /\ ~last.tracking
     /\ \E value \in MalformedEmergencyValues : last.delta = NotificationOf(value))
        => (mobNotification = Null /\ onStop = <<>> /\ calls = <<>>)

\* C6: no handler lets an exception propagate.
C6_NoException == thrown = "none"

\* C7: a notification value without a state key, or with a state that is
\* neither "emergency" nor "normal", has no effect, idle or tracking.
C7_OtherValuesIgnored ==
    [][\A value \in {NoState, OtherState} : HandledNotification(value) => NoEffect]_vars

C7_Witness ==
    /\ last.op = "notification"
    /\ last.tracking
    /\ last.delta \in {NotificationOf(NoState), NotificationOf(OtherState)}
    /\ mobNotification \in {Emergency(p) : p \in Positions}
    /\ onStop # <<>>
    /\ track # <<>>

\* C8: a "normal" notification handled while idle makes no host call.
C8_NormalWhileIdleIsNoOp ==
    (last.op = "notification" /\ ~last.tracking /\ last.delta = NotificationOf(Normal))
        => calls = <<>>

\* Number of samples the feed has offered so far in a long tracking episode,
\* each eligible (CapStep apart), once the position of this instant was handled.
CapRecorded == IF last.op = "position" THEN (now \div CapStep) + 1 ELSE 0

\* C9 as stated: the track never holds more than 720 samples.
C9_AtMost720 == Len(track) <= 720

\* C9, amended: the track never holds more samples than the capacity of the
\* variant, 12 * 60 in the heading variant and 12 * 120 in the position one.
C9_AtMostCapacity == Len(track) <= TrackCapacity(variant)

C9_Witness ==
    /\ Len(track) = TrackCapacity(variant)
    /\ CapRecorded > TrackCapacity(variant)
    /\ last.op = "position"

\* C10: once more than C samples have been recorded in one episode, the track
\* is exactly the C most recent samples, oldest first.
C10_FifoEviction ==
    CapRecorded > TrackCapacity(variant)
        => track = [i \in 1..TrackCapacity(variant) |->
                      CapSample(CapRecorded - TrackCapacity(variant) + i - 1)]

C10_Witness ==
    /\ CapRecorded = TrackCapacity(variant) + MaxOverflow
    /\ Len(track) = TrackCapacity(variant)
    /\ track[1] = CapSample(MaxOverflow)
    /\ last.op = "position"


\* The step handled a delta of the position feed carrying position p.
HandledPosition(p) ==
    last'.op = "position" /\ last'.delta = Delta(<<PathValue("navigation.position", p)>>)

LastSampleTime == track[Len(track)].time

\* C11: two consecutive samples of the track are at least 30 s apart (so the
\* times increase strictly), and a position offered less than 30 s after the
\* last recorded sample leaves the track as it was.
C11_Throttle ==
    [][/\ \A i \in 1..(Len(track') - 1) :
            /\ track'[i + 1].time - track'[i].time >= SampleInterval
            /\ track'[i + 1].time > track'[i].time
       /\ \A p \in Positions :
            (HandledPosition(p) /\ track # <<>> /\ now - LastSampleTime < SampleInterval)
                => track' = track]_vars

\* Offers at 0 s, (5 s,) 31 s and 35 s: the samples of 0 s and 31 s remain.
C11_Witness ==
    /\ last.op = "position"
    /\ now = 35000
    /\ Len(track) = 2
    /\ track[1].time = 0
    /\ track[2].time = 31000

\* C12: a position offered while tracking is appended whenever the track is
\* empty or at least 30 s have passed since the last recorded sample.
C12_AppendedAt30s ==
    [][\A p \in Positions :
         (/\ Tracking
          /\ HandledPosition(p)
          /\ (track = <<>> \/ now - LastSampleTime >= SampleInterval)
          /\ Len(track) < TrackCapacity(variant))
            => track' = Append(track, [position |-> p, time |-> now])]_vars


\* C13: the track is empty right after every change between idle and
\* tracking, and while tracking no sample is older than the activation time
\* published for the episode.
C13_TrackClearedOnTransitions ==
    [][/\ (Tracking # Tracking') => track' = <<>>
       /\ (Tracking' /\ store'.time.tag = "number")
            => \A i \in DOMAIN track' : track'[i].time >= store'.time.n]_vars

\* A second episode has started after a first one that had recorded a sample.
C13_Witness ==
    /\ last.op = "notification"
    /\ ~last.tracking
    /\ Tracking
    /\ track = <<>>
    /\ now > 0
    /\ store.time = Num(now)
    /\ PositionFeedOpen
    /\ \E h \in DOMAIN subs : subs[h].kind = "position" /\ subs[h].cancels = 1

\* The step went from idle to tracking on a notification that has a data object.
Activated ==
    /\ ~Tracking
    /\ Tracking'
    /\ IsObject(Prop(mobNotification', "data"))

\* C14: on activation the first host call publishes navigation.mob.position =
\* the embedded position and navigation.mob.time = the clock value, and the
\* position subscription is requested only after it; no position subscription
\* is ever created by a step that has not published first.
C14_PublishBeforeSubscribe ==
    [][/\ Activated
            => /\ Len(calls') >= 2
               /\ calls'[1] = "handleMessage"
               /\ calls'[2] = "subscribe"
               /\ store'.position = ActivationPosition'
               /\ store'.time = Num(now)
       /\ (Len(subs') > Len(subs) /\ subs'[Len(subs')].kind = "position")
            => calls' = <<"handleMessage", "subscribe">>]_vars

C14_Witness ==
    /\ last.op = "notification"
    /\ ~last.tracking
    /\ mobNotification = Emergency(P1)
    /\ calls = <<"handleMessage", "subscribe">>
    /\ store.position = P1
    /\ store.time = Num(now)
    /\ PositionFeedOpen

PositionHandles == {h \in DOMAIN subs : subs[h].kind = "position"}

\* C15: at most one position subscription is open, a handle is held exactly
\* when tracking, a held handle is open and not cancelled, and every handle no
\* longer held has been cancelled exactly once.
C15_HandleIffTracking ==
    /\ Cardinality({h \in PositionHandles : subs[h].open}) <= 1
    /\ (onStop # <<>>) <=> Tracking
    /\ \A h \in PositionHandles :
         IF \E i \in DOMAIN onStop : onStop[i] = h
         THEN subs[h].open /\ subs[h].cancels = 0
         ELSE ~subs[h].open /\ subs[h].cancels = 1

\* The step called subscribe and no subscription was established.
SubscribeFailed ==
    /\ \E i \in DOMAIN calls' : calls'[i] = "subscribe"
    /\ Len(subs') = Len(subs)

\* C16: when a subscription fails to establish, the error goes to app.error
\* and app.setProviderError, in that order, right after the one subscribe call
\* of the step, and nothing is called after them.
C16_ErrorReportedNoRetry ==
    [][SubscribeFailed
         => /\ Cardinality({i \in DOMAIN calls' : calls'[i] = "subscribe"}) = 1
            /\ Len(calls') >= 3
            /\ SubSeq(calls', Len(calls') - 2, Len(calls'))
                 = <<"subscribe", "error", "setProviderError">>]_vars

C16_Witness ==
    /\ last.op = "notification"
    /\ calls = <<"handleMessage", "subscribe", "error", "setProviderError">>
    /\ Tracking
    /\ onStop = <<>>

\* C17: when the position subscription of the current emergency failed to
\* establish (tracking a well-formed emergency with no handle held), handling
\* a well-formed "emergency" notification makes a new subscribe call.
C17_RetryOnNextEmergency ==
    [][\A p \in Positions :
         (/\ Tracking
          /\ ActivationPosition.tag = "point"
          /\ onStop = <<>>
          /\ HandledNotification(Emergency(p)))
            => \E i \in DOMAIN calls' : calls'[i] = "subscribe"]_vars


VesselPositions == Positions \cup {Null, Undefined}

DerivedPaths == {"elapsed", "distance", "bearingTrue"}

\* C18: against every reachable store, getMOBDelta returns the all-null
\* cleared delta (position, time, elapsed, distance, bearingTrue) when the
\* vessel position or navigation.mob.position is absent, and otherwise exactly
\* elapsed, distance and bearingTrue, all three numbers.
C18_AllNullOrAllDerived ==
    \A position \in VesselPositions :
        LET mobDelta == getMOBDelta(store, position, now)
        IN  IF ~Truthy(position) \/ ~Truthy(store.position)
            THEN /\ DOMAIN mobDelta = MobPaths
                 /\ \A path \in MobPaths : mobDelta[path] = Null
            ELSE /\ DOMAIN mobDelta = DerivedPaths
                 /\ \A path \in DerivedPaths : mobDelta[path].tag = "number"

\* The vessel at P1 while the MOB position is P0 has been published: 5 m.
C18_Witness ==
    /\ last.op = "position"
    /\ store.position = P0
    /\ store.fromBow = Undefined
    /\ store.elapsed.tag = "number"
    /\ store.distance = Num(5)
    /\ store.bearingTrue.tag = "number"

\* C19: a delta with one navigation.position value, handled while tracking,
\* makes exactly one app.handleMessage call that applies the computed delta to
\* the store, and offers the value to the track: an empty track receives it,
\* and a track that changes ends with it; also when the delta is all-null.
C19_PublishedAndOffered ==
    [][\A p \in Positions \cup {Null} :
         (Tracking /\ HandledPosition(p))
            => /\ calls' = <<"handleMessage">>
               /\ store' = ApplyDelta(store, getMOBDelta(store, p, now))
               /\ track = <<>> => track' = <<[position |-> p, time |-> now]>>
               /\ track' # track
                    => track'[Len(track')] = [position |-> p, time |-> now]]_vars

\* A null vessel position was handled: all-null published, sample recorded.
C19_Witness ==
    /\ last.op = "position"
    /\ last.tracking
    /\ last.delta = Delta(<<PathValue("navigation.position", Null)>>)
    /\ calls = <<"handleMessage">>
    /\ AllMobPathsNull
    /\ track = <<[position |-> Null, time |-> now]>>

\* C20: navigation.mob.time only ever changes to the clock value of an
\* activation or to null, so while tracking it is the activation time of the
\* episode; the elapsed value published for a position delta is
\* (now - navigation.mob.time) / 1000; with no bow offset, a vessel at the MOB
\* position 10 s after activation gets elapsed 10 and distance 0.
C20_ElapsedSinceActivation ==
    [][/\ store'.time # store.time
            => \/ Activated /\ store'.time = Num(now)
               \/ store'.time = Null
       /\ \A p \in Positions :
            (Tracking /\ HandledPosition(p) /\ store'.elapsed.tag = "number")
               => /\ store.time.tag = "number"
                  /\ store'.time = store.time
                  /\ store'.elapsed.n * 1000 = now - store.time.n
       /\ \A p \in Positions :
            (/\ Tracking /\ HandledPosition(p)
             /\ store.position = p
             /\ store.time = Num(now - 10 * 1000))
               => store'.elapsed = Num(10) /\ store'.distance = Num(0)]_vars

C20_Witness ==
    /\ last.op = "position"
    /\ last.tracking
    /\ mobNotification = Emergency(P0)
    /\ store.position = P0
    /\ store.time = Num(now - 10 * 1000)
    /\ store.elapsed = Num(10)
    /\ store.distance = Num(0)


\* The bow position the claim describes: projected along the heading by the
\* offset when the heading is a known number and the offset is available,
\* the raw vessel position otherwise.
BowPositionOf(p) ==
    IF store.headingTrue.tag = "number" /\ store.fromBow.tag = "number"
    THEN computeDestinationPoint(p, store.fromBow.n, radsToDeg(store.headingTrue.n))
    ELSE p

\* C21: the distance and bearing published for a vessel position come from
\* the bow position: the projection when heading and offset are both known,
\* the raw position otherwise.
C21_BowProjectionOnlyWhenKnown ==
    [][\A p \in Positions :
         (Tracking /\ HandledPosition(p) /\ store.position.tag = "point")
            => LET bow == BowPositionOf(p)
                   mob == store.position
               IN  /\ store'.distance =
                        Num(calc_distance(bow.latitude, bow.longitude,
                                          mob.latitude, mob.longitude))
                   /\ store'.bearingTrue =
                        Num(degsToRad(getRhumbLineBearing(bow, mob)))]_vars


\* The step went from idle to tracking on an emergency that carries a position.
ActivatedWithPosition ==
    /\ ~Tracking
    /\ Tracking'
    /\ IsObject(Prop(Prop(mobNotification', "data"), "position"))

\* C22: in the waypoint variant an activation only calls setResource and
\* leaves the destination alone; getCourse is called only by the callback of
\* a fulfilled setResource, so a getCourse is pending only for a resource that
\* exists; a fulfilled getCourse saves the course's next point and then sets
\* the destination to the waypoint; the destination is a MOB waypoint only
\* when its resource exists, and a rejected setResource calls nothing.
C22_CreateThenReadThenRedirect ==
    [][/\ ActivatedWithPosition
            => /\ calls' = <<"setResource">>
               /\ [call |-> "setResource", id |-> minted'] \in pending'
               /\ minted' \notin resources'
               /\ destination' = destination
       /\ (\E i \in DOMAIN calls' : calls'[i] = "getCourse")
            => /\ last'.op = "setResource"
               /\ last'.outcome = "ok"
               /\ last'.id \in resources'
       /\ \A id \in 1..MaxEpisodes :
            /\ [call |-> "getCourse", id |-> id] \in pending' => id \in resources'
            /\ destination' = MobWaypoint(id) => id \in resources'
            /\ (last'.op = "getCourse" /\ last'.id = id /\ last'.outcome = "ok")
                 => /\ nextPoint' = destination
                    /\ destination' = MobWaypoint(id)
                    /\ calls' = <<"setDestination">>
            /\ (last'.op = "setResource" /\ last'.id = id /\ last'.outcome = "error")
                 => /\ calls' = <<>>
                    /\ destination' = destination
                    /\ \A c \in pending' : c.id # id]_vars

\* The vessel has been redirected to the waypoint of the running emergency.
C22_Witness ==
    /\ variant = "waypoint"
    /\ Tracking
    /\ last.op = "getCourse"
    /\ calls = <<"setDestination">>
    /\ destination = MobWaypoint(minted)
    /\ minted \in resources
    /\ nextPoint = RoutePoint

\* C23: in the waypoint variant, when the engine is idle and no promise is
\* pending, the destination is not a MOB waypoint.
C23_NoMobDestinationWhenIdle ==
    (variant = "waypoint" /\ ~Tracking /\ pending = {})
        => \A id \in 1..MaxEpisodes : destination # MobWaypoint(id)

\* C24: in the waypoint variant, handling "normal" while tracking an
\* emergency that carried a position restores the next point only when it was
\* read since that emergency began, and clears the destination otherwise.
C24_RestoresThisEpisodesNextPoint ==
    [][(/\ variant = "waypoint"
        /\ Tracking
        /\ IsObject(ActivationPosition)
        /\ HandledNotification(Normal))
         => IF nextPointFrom = minted /\ Truthy(nextPoint)
            THEN destination' = nextPoint /\ calls' = <<"setDestination">>
            ELSE destination' = Null /\ calls' = <<"clearDestination">>]_vars


\* C25: right after plugin.stop() no subscription the plugin created is open.
C25_StopClosesEverySubscription ==
    last.op = "plugin.stop" => \A h \in DOMAIN subs : ~subs[h].open

====
